---- MODULE Spec2Model ----
(***************************************************************************)
(* Model of fetch-logos-only.py (class LogoFetcher).                       *)
(*                                                                         *)
(* Strings are TLA+ strings (sequences of characters); the string          *)
(* operations of the script (lower, in, endswith, replace, re.sub, slice)  *)
(* are computed character by character.                                    *)
(***************************************************************************)
EXTENDS Integers, Sequences, FiniteSets, TLC

VARIABLES
    companies,      \* sys.argv[1:], the argument of run
    pc,             \* position of the single thread of execution
    ci,             \* 1-based index of the company run is at
    stats,          \* self.stats
    vi,             \* index into search_variations of the next variant to test
    page,           \* find_company_logos: the local `page`
    images_list,    \* find_company_logos: the images of the listing response
    ri,             \* 1-based index of the next img_data to scan
    logos,          \* find_company_logos: `logos`; process_company: `logos`
    di,             \* process_company: enumerate index i + 1 of the logo at hand
    calls,          \* history: external calls made for the company at hand (between
                    \* two companies: the pause that ended the last one)
    answers,        \* history: the metadata response given for each scanned image
    processed,      \* history: arguments of the process_company calls made so far
    tally,          \* history: what happened in the run so far, counted event by event
    call            \* a single call of a pure method: its argument and result

vars == <<companies, pc, ci, stats, vi, page, images_list, ri, logos, di,
          calls, answers, processed, tally, call>>

runVars == <<companies, pc, ci, stats, vi, page, images_list, ri, logos, di,
             calls, answers, processed, tally>>

----------------------------------------------------------------------------
(* Bounds of the model *)

MaxTitleFrags == 3
MaxNameFrags == 3
MaxPages == 2
MaxCompanies == 2
MaxRefs == 2

(* Constants of the program *)

MaxNameLen == 50
MinSvgWidth == 100
DownloadPause == 2
CompanyPause == 3
NumVariations == 4

----------------------------------------------------------------------------
(* Python string operations *)

Char(s, i) == SubSeq(s, i, i)

UpperLetters == "ABCDEFGHIJKLMNOPQRSTUVWXYZ"
LowerLetters == "abcdefghijklmnopqrstuvwxyz"
DigitChars == "0123456789"

IsIn(c, alphabet) == \E i \in 1..Len(alphabet) : Char(alphabet, i) = c

\* str.lower() on one character
LowerChar(c) ==
    CASE c = "A" -> "a" [] c = "B" -> "b" [] c = "C" -> "c" [] c = "D" -> "d"
         [] c = "E" -> "e" [] c = "F" -> "f" [] c = "G" -> "g" [] c = "H" -> "h"
         [] c = "I" -> "i" [] c = "J" -> "j" [] c = "K" -> "k" [] c = "L" -> "l"
         [] c = "M" -> "m" [] c = "N" -> "n" [] c = "O" -> "o" [] c = "P" -> "p"
         [] c = "Q" -> "q" [] c = "R" -> "r" [] c = "S" -> "s" [] c = "T" -> "t"
         [] c = "U" -> "u" [] c = "V" -> "v" [] c = "W" -> "w" [] c = "X" -> "x"
         [] c = "Y" -> "y" [] c = "Z" -> "z"
         [] OTHER -> c

\* ''.join(pieces[lo..hi])
RECURSIVE JoinFrom(_, _, _)
JoinFrom(pieces, lo, hi) ==
    IF lo > hi THEN ""
    ELSE IF lo = hi THEN pieces[lo]
    ELSE LET mid == (lo + hi) \div 2
         IN  JoinFrom(pieces, lo, mid) \o JoinFrom(pieces, mid + 1, hi)

Join(pieces) == JoinFrom(pieces, 1, Len(pieces))

\* str.lower()
Lower(s) == Join([i \in 1..Len(s) |-> LowerChar(Char(s, i))])

\* sub in s
Contains(sub, s) ==
    \E i \in 0..(Len(s) - Len(sub)) : SubSeq(s, i + 1, i + Len(sub)) = sub

\* s.endswith(suf)
EndsWith(s, suf) ==
    /\ Len(s) >= Len(suf)
    /\ SubSeq(s, Len(s) - Len(suf) + 1, Len(s)) = suf

\* s.replace(old, ''): every occurrence, left to right
RECURSIVE Remove(_, _)
Remove(s, old) ==
    IF Len(s) < Len(old) THEN s
    ELSE IF SubSeq(s, 1, Len(old)) = old
         THEN Remove(SubSeq(s, Len(old) + 1, Len(s)), old)
         ELSE Char(s, 1) \o Remove(SubSeq(s, 2, Len(s)), old)

\* s[:n]
Slice(s, n) == IF Len(s) <= n THEN s ELSE SubSeq(s, 1, n)

\* the decimal numeral of n, as the f-string {i+1} prints it
RECURSIVE Str(_)
Str(n) ==
    IF n < 10 THEN Char(DigitChars, n + 1)
    ELSE Str(n \div 10) \o Char(DigitChars, (n % 10) + 1)

\* dict.get(k, default)
Get(d, k, default) == IF k \in DOMAIN d THEN d[k] ELSE default

None == [none |-> TRUE]

----------------------------------------------------------------------------
(* sanitize_filename *)

\* \w of the re module
IsWord(c) ==
    IsIn(c, UpperLetters) \/ IsIn(c, LowerLetters) \/ IsIn(c, DigitChars) \/ c = "_"

\* \s of the re module
IsSpace(c) == c \in {" ", "\t", "\n", "\r"}

\* re.sub(r'[^\w\s-]', '', name)
StripUnsafe(s) ==
    Join([i \in 1..Len(s) |->
            IF IsWord(Char(s, i)) \/ IsSpace(Char(s, i)) \/ Char(s, i) = "-"
            THEN Char(s, i) ELSE ""])

IsSep(c) == c = "-" \/ IsSpace(c)

\* re.sub(r'[-\s]+', '_', s): each maximal run becomes one underscore
CollapseSeps(s) ==
    Join([i \in 1..Len(s) |->
            IF ~IsSep(Char(s, i)) THEN Char(s, i)
            ELSE IF i < Len(s) /\ IsSep(Char(s, i + 1)) THEN ""
            ELSE "_"])

\* a faulty variant of sanitize_filename: the slice of line 44 is left out
sanitize_filename_no_slice(name) == CollapseSeps(StripUnsafe(name))

sanitize_filename(name) == Slice(CollapseSeps(StripUnsafe(name)), MaxNameLen)

----------------------------------------------------------------------------
(* is_logo_file *)

logo_keywords ==
    <<"logo", "wordmark", "emblem", "symbol", "brand", "trademark",
      "corporate", "company_logo", "logotype", "mark", "insignia">>

skip_keywords ==
    <<"commons-logo", "wiki", "wikidata", "wikimedia", "edit-icon", "ambox",
      "merge", "disambig">>

\* any(k in s for k in keywords)
AnyIn(keywords, s) == \E k \in 1..Len(keywords) : Contains(keywords[k], s)

\* a faulty variant of is_logo_file: the skip keywords are not consulted
is_logo_file_allow_wins(filename) ==
    LET filename_lower == Lower(filename)
        has_logo_keyword == AnyIn(logo_keywords, filename_lower)
        is_png_svg == EndsWith(filename_lower, ".png") \/ EndsWith(filename_lower, ".svg")
    IN  has_logo_keyword /\ is_png_svg

is_logo_file(filename) ==
    LET filename_lower == Lower(filename)
        has_logo_keyword == AnyIn(logo_keywords, filename_lower)
        is_png_svg == EndsWith(filename_lower, ".png") \/ EndsWith(filename_lower, ".svg")
        has_skip_keyword == AnyIn(skip_keywords, filename_lower)
    IN  has_logo_keyword /\ is_png_svg /\ ~has_skip_keyword

----------------------------------------------------------------------------
(* get_logo_info *)

\* A response of requests.get is [kind |-> "raise"] when the call (or the
\* decoding of its body) raises, and otherwise
\* [kind |-> "http", status_code |-> n, pages |-> <<page_data, ...>>], pages
\* being data['query']['pages'] in the order items() yields it.

\* a faulty variant of Acceptable: the width of an SVG is not consulted
Acceptable_any_svg(image_info) ==
    LET mime_type == Get(image_info, "mime", "")
    IN  Contains("png", mime_type) \/ Contains("svg", mime_type)

\* the test of line 135 on one image_info
Acceptable(image_info) ==
    LET mime_type == Get(image_info, "mime", "")
        width == Get(image_info, "width", 0)
    IN  Contains("png", mime_type)
        \/ (Contains("svg", mime_type) /\ width >= MinSvgWidth)

\* the dict of lines 136-143
LogoInfo(file_title, image_info) ==
    [url |-> Get(image_info, "url", None),
     width |-> Get(image_info, "width", 0),
     height |-> Get(image_info, "height", 0),
     mime |-> Get(image_info, "mime", ""),
     size |-> Get(image_info, "size", 0),
     filename |-> Remove(file_title, "File:")]

\* 'imageinfo' in page_data and page_data['imageinfo']
HasImageInfo(page_data) ==
    "imageinfo" \in DOMAIN page_data /\ page_data.imageinfo # <<>>

\* the loop of lines 126-144 over pages[k..]
RECURSIVE FirstAccepted(_, _, _)
FirstAccepted(file_title, pages, k) ==
    IF k > Len(pages) THEN None
    ELSE IF HasImageInfo(pages[k]) /\ Acceptable(pages[k].imageinfo[1])
         THEN LogoInfo(file_title, pages[k].imageinfo[1])
         ELSE FirstAccepted(file_title, pages, k + 1)

get_logo_info(file_title, response) ==
    IF response.kind = "raise" THEN None
    ELSE IF response.status_code # 200 THEN None
    ELSE FirstAccepted(file_title, response.pages, 1)

----------------------------------------------------------------------------
(* Inputs of the pure methods *)

\* every concatenation of at most n of the fragments
RECURSIVE Concats(_, _)
Concats(frags, n) ==
    IF n = 0 THEN {""}
    ELSE LET shorter == Concats(frags, n - 1)
         IN  shorter \cup {s \o f : s \in shorter, f \in frags}

TitleFrags ==
    {"File:", "Acme", "_Logo", "logo", "trademark", "MARK", "Wikidata-",
     "wiki", "Merge", ".png", ".SVG", ".jpg"}

Titles == Concats(TitleFrags, MaxTitleFrags)

LongWord == "ABCDEFGHIJKLMNOPQRSTUVWXYZabcdefghijklmnopqrstuv"

NameFrags == {"Coca-Cola", ", Inc.", "-", ",", " ", ".", "_", "\t", "A1", LongWord}

Names == Concats(NameFrags, MaxNameFrags)

Mimes == {"image/png", "image/svg+xml", "image/jpeg", "image/svg+png"}

Widths == {99, 100, 300}

ImageInfos ==
    {[url |-> "https://upload/x", width |-> w, height |-> 40, mime |-> m, size |-> 7] :
        m \in Mimes, w \in Widths}
    \cup {[url |-> "https://upload/x"],
          [url |-> "https://upload/x", mime |-> "image/svg+xml"]}

PageDatas ==
    {[imageinfo |-> <<ii>>] : ii \in ImageInfos}
    \cup {[pageid |-> 1],
          [imageinfo |-> <<>>],
          [imageinfo |-> <<[url |-> "https://upload/x", mime |-> "image/jpeg", width |-> 300],
                           [url |-> "https://upload/x", mime |-> "image/png", width |-> 300]>>]}

RECURSIVE SeqsUpTo(_, _)
SeqsUpTo(S, n) ==
    IF n = 0 THEN {<<>>}
    ELSE LET shorter == SeqsUpTo(S, n - 1)
         IN  shorter \cup {Append(q, x) : q \in shorter, x \in S}

InfoResponses ==
    {[kind |-> "raise"], [kind |-> "http", status_code |-> 404, pages |-> <<>>]}
    \cup {[kind |-> "http", status_code |-> 200, pages |-> ps] :
            ps \in SeqsUpTo(PageDatas, MaxPages)}

InfoTitles == {"File:Acme_logo.png", "File:Acme File:wordmark.svg"}

----------------------------------------------------------------------------
(* One call of a pure method: the argument is drawn, then the method runs *)

NoCall == [fn |-> "none"]

RunIdle ==
    /\ companies = <<>>
    /\ pc = "idle"
    /\ ci = 0
    /\ stats = [companies_processed |-> 0, logos_found |-> 0, logos_downloaded |-> 0]
    /\ vi = 0
    /\ page = None
    /\ images_list = <<>>
    /\ ri = 0
    /\ logos = <<>>
    /\ di = 0
    /\ calls = <<>>
    /\ answers = <<>>
    /\ processed = <<>>
    /\ tally = [started |-> 0, returned |-> 0, succeeded |-> 0]

InitSanitize ==
    /\ RunIdle
    /\ call \in {[fn |-> "sanitize_filename", arg |-> n, done |-> FALSE] : n \in Names}

CallSanitize ==
    /\ call.fn = "sanitize_filename" /\ ~call.done
    /\ call' = [fn |-> call.fn, arg |-> call.arg, done |-> TRUE,
                ret |-> sanitize_filename(call.arg)]
    /\ UNCHANGED runVars

SpecSanitize == InitSanitize /\ [][CallSanitize]_vars

InitClassify ==
    /\ RunIdle
    /\ call \in {[fn |-> "is_logo_file", arg |-> t, done |-> FALSE] : t \in Titles}

CallClassify ==
    /\ call.fn = "is_logo_file" /\ ~call.done
    /\ call' = [fn |-> call.fn, arg |-> call.arg, done |-> TRUE,
                ret |-> is_logo_file(call.arg)]
    /\ UNCHANGED runVars

SpecClassify == InitClassify /\ [][CallClassify]_vars

InitInfo ==
    /\ RunIdle
    /\ call \in {[fn |-> "get_logo_info", arg |-> t, response |-> r, done |-> FALSE] :
                    t \in InfoTitles, r \in InfoResponses}

CallInfo ==
    /\ call.fn = "get_logo_info" /\ ~call.done
    /\ call' = [fn |-> call.fn, arg |-> call.arg, response |-> call.response,
                done |-> TRUE, ret |-> get_logo_info(call.arg, call.response)]
    /\ UNCHANGED runVars

SpecInfo == InitInfo /\ [][CallInfo]_vars

Returned(fn) == call.fn = fn /\ call.done

----------------------------------------------------------------------------
(* Inputs of a run: the arguments and what the external services answer *)

CompanyNames == {"Coca-Cola, Inc."}

\* what wiki_wiki.page(variation).exists() does
ExistsOutcomes == {"exists", "missing", "raise"}

RunTitles == {"File:Logo.PNG", "File:logo.jpg", "File:Wiki-logo.png"}

ListingResponses ==
    {[kind |-> "raise"],
     [kind |-> "http", status_code |-> 503, pages |-> <<>>],
     [kind |-> "http", status_code |-> 200, pages |-> <<[pageid |-> 1]>>]}
    \cup {[kind |-> "http", status_code |-> 200, pages |-> <<[images |-> r]>>] :
            r \in SeqsUpTo({[title |-> t] : t \in RunTitles}, MaxRefs)}

PngInfo ==
    [url |-> "https://upload/a.png", width |-> 64, height |-> 64,
     mime |-> "image/png", size |-> 900]

SvgInfo(w) ==
    [url |-> "https://upload/a.svg", width |-> w, height |-> 50,
     mime |-> "image/svg+xml", size |-> 700]

MetaResponses ==
    {[kind |-> "raise"],
     [kind |-> "http", status_code |-> 200, pages |-> <<[imageinfo |-> <<PngInfo>>]>>],
     [kind |-> "http", status_code |-> 200, pages |-> <<[imageinfo |-> <<SvgInfo(99)>>]>>],
     [kind |-> "http", status_code |-> 200, pages |-> <<[imageinfo |-> <<SvgInfo(300)>>]>>]}

\* a binary fetch raises (timeout, HTTP error status, write error) or answers
\* with a content-type header
FetchResponses ==
    {[kind |-> "raise"],
     [kind |-> "http", content_type |-> "image/png"],
     [kind |-> "http", content_type |-> "text/html"]}

NoQuery == [kind |-> "noquery"]

----------------------------------------------------------------------------
(* The run: main, run, process_company, find_company_logos *)

\* a faulty variant of search_variations: the second and third variants swapped
search_variations_swapped(company_name) ==
    <<company_name,
      company_name \o " Inc.",
      company_name \o ", Inc.",
      "The " \o company_name \o " Company">>

search_variations(company_name) ==
    <<company_name,
      company_name \o ", Inc.",
      company_name \o " Inc.",
      "The " \o company_name \o " Company">>

\* the images of every page of the listing response, in order
RECURSIVE ListedImages(_, _)
ListedImages(pages, k) ==
    IF k > Len(pages) THEN <<>>
    ELSE IF "images" \in DOMAIN pages[k]
         THEN pages[k].images \o ListedImages(pages, k + 1)
         ELSE ListedImages(pages, k + 1)

\* what download_logo_to_folder returns
download_logo_to_folder(response) ==
    /\ response.kind = "http"
    /\ Contains("image", response.content_type)

\* lines 252-253
LogoFilename(i, logo_info) ==
    "logo_" \o Str(i + 1) \o "."
        \o (IF Contains("png", logo_info.mime) THEN "png" ELSE "svg")

\* what is_logo_file answers for each title a listing can hold, and what
\* sanitize_filename answers for each argument of the run
LogoFileVerdict == [t \in RunTitles |-> is_logo_file(t)]

CompanySafeName == [n \in CompanyNames |-> sanitize_filename(n)]

Init ==
    /\ companies \in SeqsUpTo(CompanyNames, MaxCompanies)
    /\ pc = "main"
    /\ ci = 0
    /\ stats = [companies_processed |-> 0, logos_found |-> 0, logos_downloaded |-> 0]
    /\ vi = 0
    /\ page = None
    /\ images_list = <<>>
    /\ ri = 0
    /\ logos = <<>>
    /\ di = 0
    /\ calls = <<>>
    /\ answers = <<>>
    /\ processed = <<>>
    /\ tally = [started |-> 0, returned |-> 0, succeeded |-> 0]
    /\ call = NoCall

\* main: no argument prints the usage; otherwise run starts its loop
Main ==
    /\ pc = "main"
    /\ IF Len(companies) = 0
       THEN pc' = "usage" /\ ci' = ci
       ELSE pc' = "run" /\ ci' = 1
    /\ UNCHANGED <<companies, stats, vi, page, images_list, ri, logos, di,
                   calls, answers, processed, tally, call>>

\* run calls process_company(company), which counts it and calls
\* find_company_logos
ProcessCompany ==
    /\ pc = "run" /\ ci <= Len(companies)
    /\ stats' = [stats EXCEPT !.companies_processed = @ + 1]
    /\ processed' = Append(processed, companies[ci])
    /\ tally' = [tally EXCEPT !.started = @ + 1]
    /\ vi' = 1
    /\ page' = None
    /\ images_list' = <<>>
    /\ ri' = 0
    /\ logos' = <<>>
    /\ di' = 0
    /\ calls' = <<>>
    /\ answers' = <<>>
    /\ pc' = "resolve"
    /\ UNCHANGED <<companies, ci, call>>

\* a faulty variant of CheckVariant: find_company_logos without its exception
\* handler, so that a raising existence check ends the run
CheckVariant_uncaught ==
    /\ pc = "resolve"
    /\ \E outcome \in ExistsOutcomes :
        LET variation == search_variations(companies[ci])[vi]
        IN  /\ calls' = Append(calls, [api |-> "exists", arg |-> variation, ret |-> outcome])
            /\ CASE outcome = "exists" ->
                      page' = [title |-> variation] /\ vi' = vi /\ pc' = "listing"
                 [] outcome = "missing" /\ vi < NumVariations ->
                      page' = page /\ vi' = vi + 1 /\ pc' = "resolve"
                 [] outcome = "raise" ->
                      page' = page /\ vi' = vi /\ pc' = "aborted"
                 [] OTHER ->
                      page' = page /\ vi' = vi /\ pc' = "sleep_co"
    /\ UNCHANGED <<companies, ci, stats, images_list, ri, logos, di, answers,
                   processed, tally, call>>

\* one turn of the loop of lines 164-168, and lines 170-172 after its last turn
CheckVariant ==
    /\ pc = "resolve"
    /\ \E outcome \in ExistsOutcomes :
        LET variation == search_variations(companies[ci])[vi]
        IN  /\ calls' = Append(calls, [api |-> "exists", arg |-> variation, ret |-> outcome])
            /\ CASE outcome = "exists" ->
                      page' = [title |-> variation] /\ vi' = vi /\ pc' = "listing"
                 [] outcome = "missing" /\ vi < NumVariations ->
                      page' = page /\ vi' = vi + 1 /\ pc' = "resolve"
                 [] OTHER ->
                      \* not page, or the exception handler: return []
                      page' = page /\ vi' = vi /\ pc' = "sleep_co"
    /\ UNCHANGED <<companies, ci, stats, images_list, ri, logos, di, answers,
                   processed, tally, call>>

\* lines 176-203: the listing call
ListImages ==
    /\ pc = "listing"
    /\ \E response \in ListingResponses :
        /\ calls' = Append(calls, [api |-> "images", arg |-> page.title, ret |-> response])
        /\ IF response.kind = "raise" \/ response.status_code # 200
           THEN /\ pc' = "sleep_co"
                /\ UNCHANGED <<images_list, ri>>
           ELSE /\ images_list' = ListedImages(response.pages, 1)
                /\ ri' = 1
                /\ pc' = "scan"
    /\ UNCHANGED <<companies, ci, stats, vi, page, logos, di, answers,
                   processed, tally, call>>

\* a faulty variant of ScanImage: logos.insert(0, logo_info) for logos.append
ScanImage_prepend ==
    /\ pc = "scan" /\ ri <= Len(images_list)
    /\ LET img_title == images_list[ri].title
       IN  IF LogoFileVerdict[img_title]
           THEN \E response \in MetaResponses :
                  LET logo_info == get_logo_info(img_title, response)
                  IN  /\ calls' = Append(calls, [api |-> "imageinfo", arg |-> img_title,
                                                 ret |-> response])
                      /\ answers' = Append(answers, response)
                      /\ logos' = IF logo_info # None THEN <<logo_info>> \o logos ELSE logos
           ELSE /\ answers' = Append(answers, NoQuery)
                /\ UNCHANGED <<calls, logos>>
    /\ ri' = ri + 1
    /\ UNCHANGED <<companies, pc, ci, stats, vi, page, images_list, di,
                   processed, tally, call>>

\* a faulty variant of ScanImage: the loop is left at the first accepted logo
ScanImage_first_only ==
    /\ pc = "scan" /\ ri <= Len(images_list)
    /\ LET img_title == images_list[ri].title
       IN  IF LogoFileVerdict[img_title]
           THEN \E response \in MetaResponses :
                  LET logo_info == get_logo_info(img_title, response)
                  IN  /\ calls' = Append(calls, [api |-> "imageinfo", arg |-> img_title,
                                                 ret |-> response])
                      /\ logos' = IF logo_info # None THEN Append(logos, logo_info) ELSE logos
                      /\ IF logo_info # None
                         THEN /\ ri' = Len(images_list) + 1
                              /\ answers' = Append(answers, response)
                                    \o [k \in 1..(Len(images_list) - ri) |-> NoQuery]
                         ELSE /\ ri' = ri + 1
                              /\ answers' = Append(answers, response)
           ELSE /\ answers' = Append(answers, NoQuery)
                /\ ri' = ri + 1
                /\ UNCHANGED <<calls, logos>>
    /\ UNCHANGED <<companies, pc, ci, stats, vi, page, images_list, di,
                   processed, tally, call>>

\* one turn of the loop of lines 205-214
ScanImage ==
    /\ pc = "scan" /\ ri <= Len(images_list)
    /\ LET img_title == images_list[ri].title
       IN  IF LogoFileVerdict[img_title]
           THEN \E response \in MetaResponses :
                  LET logo_info == get_logo_info(img_title, response)
                  IN  /\ calls' = Append(calls, [api |-> "imageinfo", arg |-> img_title,
                                                 ret |-> response])
                      /\ answers' = Append(answers, response)
                      /\ logos' = IF logo_info # None THEN Append(logos, logo_info) ELSE logos
           ELSE /\ answers' = Append(answers, NoQuery)
                /\ UNCHANGED <<calls, logos>>
    /\ ri' = ri + 1
    /\ UNCHANGED <<companies, pc, ci, stats, vi, page, images_list, di,
                   processed, tally, call>>

\* line 218, then lines 234-246 of process_company
ReturnLogos ==
    /\ pc = "scan" /\ ri > Len(images_list)
    /\ tally' = [tally EXCEPT !.returned = @ + Len(logos)]
    /\ IF logos = <<>>
       THEN /\ pc' = "sleep_co"
            /\ UNCHANGED <<stats, di>>
       ELSE /\ stats' = [stats EXCEPT !.logos_found = @ + Len(logos)]
            /\ di' = 1
            /\ pc' = "download"
    /\ UNCHANGED <<companies, ci, vi, page, images_list, ri, logos, calls, answers,
                   processed, call>>

\* a faulty variant of DownloadLogo: files numbered by the downloads that
\* succeeded so far
DownloadLogo_numbered_by_success ==
    /\ pc = "download"
    /\ \E response \in FetchResponses :
        LET logo_info == logos[di]
            filename == LogoFilename(
                Len(SelectSeq(calls, LAMBDA c : c.api = "fetch" /\ c.ok)), logo_info)
            ok == download_logo_to_folder(response)
        IN  /\ calls' = Append(calls,
                    [api |-> "fetch", arg |-> logo_info.url,
                     dir |-> CompanySafeName[companies[ci]],
                     filename |-> filename, ok |-> ok])
            /\ stats' = IF ok THEN [stats EXCEPT !.logos_downloaded = @ + 1] ELSE stats
            /\ tally' = IF response.kind = "http" /\ response.content_type = "image/png"
                        THEN [tally EXCEPT !.succeeded = @ + 1] ELSE tally
    /\ pc' = "sleep_dl"
    /\ UNCHANGED <<companies, ci, vi, page, images_list, ri, logos, di, answers,
                   processed, call>>

\* a faulty variant of DownloadLogo: the pause of line 264 only after a
\* successful download
DownloadLogo_sleep_on_success ==
    /\ pc = "download"
    /\ \E response \in FetchResponses :
        LET logo_info == logos[di]
            filename == LogoFilename(di - 1, logo_info)
            ok == download_logo_to_folder(response)
        IN  /\ calls' = Append(calls,
                    [api |-> "fetch", arg |-> logo_info.url,
                     dir |-> CompanySafeName[companies[ci]],
                     filename |-> filename, ok |-> ok])
            /\ stats' = IF ok THEN [stats EXCEPT !.logos_downloaded = @ + 1] ELSE stats
            /\ tally' = IF response.kind = "http" /\ response.content_type = "image/png"
                        THEN [tally EXCEPT !.succeeded = @ + 1] ELSE tally
            /\ IF ok THEN pc' = "sleep_dl" /\ di' = di
               ELSE IF di < Len(logos) THEN pc' = "download" /\ di' = di + 1
               ELSE pc' = "sleep_co" /\ di' = di
    /\ UNCHANGED <<companies, ci, vi, page, images_list, ri, logos, answers,
                   processed, call>>

\* a faulty variant of DownloadLogo: logos_downloaded counts every attempt
DownloadLogo_counts_attempts ==
    /\ pc = "download"
    /\ \E response \in FetchResponses :
        LET logo_info == logos[di]
            filename == LogoFilename(di - 1, logo_info)
            ok == download_logo_to_folder(response)
        IN  /\ calls' = Append(calls,
                    [api |-> "fetch", arg |-> logo_info.url,
                     dir |-> CompanySafeName[companies[ci]],
                     filename |-> filename, ok |-> ok])
            /\ stats' = [stats EXCEPT !.logos_downloaded = @ + 1]
            /\ tally' = IF response.kind = "http" /\ response.content_type = "image/png"
                        THEN [tally EXCEPT !.succeeded = @ + 1] ELSE tally
    /\ pc' = "sleep_dl"
    /\ UNCHANGED <<companies, ci, vi, page, images_list, ri, logos, di, answers,
                   processed, call>>

\* lines 251-261: one download
DownloadLogo ==
    /\ pc = "download"
    /\ \E response \in FetchResponses :
        LET logo_info == logos[di]
            filename == LogoFilename(di - 1, logo_info)
            ok == download_logo_to_folder(response)
        IN  /\ calls' = Append(calls,
                    [api |-> "fetch", arg |-> logo_info.url,
                     dir |-> CompanySafeName[companies[ci]],
                     filename |-> filename, ok |-> ok])
            /\ stats' = IF ok THEN [stats EXCEPT !.logos_downloaded = @ + 1] ELSE stats
            /\ tally' = IF response.kind = "http" /\ response.content_type = "image/png"
                        THEN [tally EXCEPT !.succeeded = @ + 1] ELSE tally
    /\ pc' = "sleep_dl"
    /\ UNCHANGED <<companies, ci, vi, page, images_list, ri, logos, di, answers,
                   processed, call>>

\* line 264, then the next turn of the loop of line 248 or the return to run
SleepAfterDownload ==
    /\ pc = "sleep_dl"
    /\ calls' = Append(calls, [api |-> "sleep", arg |-> DownloadPause])
    /\ IF di < Len(logos)
       THEN di' = di + 1 /\ pc' = "download"
       ELSE di' = di /\ pc' = "sleep_co"
    /\ UNCHANGED <<companies, ci, stats, vi, page, images_list, ri, logos, answers,
                   processed, tally, call>>

\* line 279; the locals of the call of process_company that returned are gone
SleepAfterCompany ==
    /\ pc = "sleep_co"
    /\ calls' = <<[api |-> "sleep", arg |-> CompanyPause]>>
    /\ ci' = ci + 1
    /\ vi' = 0
    /\ page' = None
    /\ images_list' = <<>>
    /\ ri' = 0
    /\ logos' = <<>>
    /\ di' = 0
    /\ answers' = <<>>
    /\ pc' = "run"
    /\ UNCHANGED <<companies, stats, processed, tally, call>>

\* line 281
PrintSummary ==
    /\ pc = "run" /\ ci > Len(companies)
    /\ pc' = "done"
    /\ UNCHANGED <<companies, ci, stats, vi, page, images_list, ri, logos, di,
                   calls, answers, processed, tally, call>>

Next ==
    \/ Main
    \/ ProcessCompany
    \/ CheckVariant
    \/ ListImages
    \/ ScanImage
    \/ ReturnLogos
    \/ DownloadLogo
    \/ SleepAfterDownload
    \/ SleepAfterCompany
    \/ PrintSummary

Spec == Init /\ [][Next]_vars

----------------------------------------------------------------------------
(* Properties of the pure methods *)

\* keyword kw (lower case) occurs in s at offset i, letter case ignored
MatchesAtCI(s, i, kw) ==
    /\ i + Len(kw) <= Len(s)
    /\ \A j \in 1..Len(kw) : LowerChar(Char(s, i + j)) = Char(kw, j)

OccursCI(s, kw) == \E i \in 0..Len(s) : MatchesAtCI(s, i, kw)

HasAllowKeyword(t) == \E k \in 1..Len(logo_keywords) : OccursCI(t, logo_keywords[k])

HasDenyKeyword(t) == \E k \in 1..Len(skip_keywords) : OccursCI(t, skip_keywords[k])

HasLogoExtension(t) ==
    /\ Len(t) >= 4
    /\ MatchesAtCI(t, Len(t) - 4, ".png") \/ MatchesAtCI(t, Len(t) - 4, ".svg")

\* C2: is_logo_file(T) is true exactly when T, letter case ignored, contains an
\* allow-keyword, ends in .png or .svg and contains no deny-keyword; so a title
\* with an allow- and a deny-keyword is rejected, and so is a title whose
\* extension is neither png nor svg.
C2_Classifier ==
    Returned("is_logo_file") =>
        /\ call.ret = (/\ HasAllowKeyword(call.arg)
                       /\ HasLogoExtension(call.arg)
                       /\ ~HasDenyKeyword(call.arg))
        /\ (HasAllowKeyword(call.arg) /\ HasDenyKeyword(call.arg) => call.ret = FALSE)
        /\ (~HasLogoExtension(call.arg) => call.ret = FALSE)

C2_Witness ==
    /\ Returned("is_logo_file")
    /\ HasAllowKeyword(call.arg) /\ HasDenyKeyword(call.arg)
    /\ HasLogoExtension(call.arg)
    /\ call.arg # Lower(call.arg)
    /\ call.ret = FALSE

\* C1 as stated: a returned record's MIME type contains "png" or "svg", and
\* whenever it contains "svg" its width is at least 100.
C1_Original ==
    Returned("get_logo_info") /\ call.ret # None =>
        /\ Contains("png", call.ret.mime) \/ Contains("svg", call.ret.mime)
        /\ (Contains("svg", call.ret.mime) => call.ret.width >= MinSvgWidth)

\* C1 amended: a returned record's MIME type contains "png" or "svg", and
\* whenever it contains "svg" and does not contain "png" its width is at
\* least 100.
C1_Amended ==
    Returned("get_logo_info") /\ call.ret # None =>
        /\ Contains("png", call.ret.mime) \/ Contains("svg", call.ret.mime)
        /\ (Contains("svg", call.ret.mime) /\ ~Contains("png", call.ret.mime)
                => call.ret.width >= MinSvgWidth)

C1_Witness ==
    /\ Returned("get_logo_info") /\ call.ret # None
    /\ Len(call.response.pages) > 1
    /\ Contains("svg", call.ret.mime) /\ ~Contains("png", call.ret.mime)

IsAlnum(c) == IsIn(c, UpperLetters) \/ IsIn(c, LowerLetters) \/ IsIn(c, DigitChars)

\* the characters of s that satisfy Keep, in order
Only(Keep(_), s) ==
    Join([i \in 1..Len(s) |-> IF Keep(Char(s, i)) THEN Char(s, i) ELSE ""])

IsPrefix(p, s) == Len(p) <= Len(s) /\ SubSeq(s, 1, Len(p)) = p

\* each maximal run of characters other than letters, digits and underscores
\* becomes one underscore
CollapseUnsafe(s) ==
    Join([i \in 1..Len(s) |->
            IF IsWord(Char(s, i)) THEN Char(s, i)
            ELSE IF i < Len(s) /\ ~IsWord(Char(s, i + 1)) THEN ""
            ELSE "_"])

WellFormedName(r) ==
    /\ Len(r) <= MaxNameLen
    /\ \A i \in 1..Len(r) : IsAlnum(Char(r, i)) \/ Char(r, i) = "_"

\* C8 as stated: the result has at most 50 characters, all alphanumeric or
\* underscores, and the unsafe characters of the name (commas, periods, ...)
\* are collapsed to underscores.
C8_Original ==
    Returned("sanitize_filename") =>
        /\ WellFormedName(call.ret)
        /\ call.ret = Slice(CollapseUnsafe(call.arg), MaxNameLen)

\* position i of s holds the last hyphen or whitespace of a run, the deleted
\* characters between the hyphens and whitespace of a run not counting
EndsRun(s, i) ==
    /\ IsSep(Char(s, i))
    /\ \A j \in (i + 1)..Len(s) :
          IsSep(Char(s, j)) => \E k \in (i + 1)..(j - 1) : IsWord(Char(s, k))

IsUnderscore(c) == c = "_"

\* C8 amended: the result has at most 50 characters, all alphanumeric or
\* underscores; the letters, digits and underscores of the name are kept in
\* order, every other character but hyphens and whitespace (commas, periods,
\* ...) is deleted, and then each run of hyphens and whitespace becomes one
\* underscore.
C8_Amended ==
    Returned("sanitize_filename") =>
        /\ WellFormedName(call.ret)
        /\ IsPrefix(Only(IsAlnum, call.ret), Only(IsAlnum, call.arg))
        /\ (~(\E i \in 1..Len(call.arg) : IsSep(Char(call.arg, i)) \/ Char(call.arg, i) = "_")
                => ~Contains("_", call.ret))
        /\ (~Contains("_", call.arg) => ~Contains("__", call.ret))
        /\ (Len(call.ret) < MaxNameLen =>
                /\ Only(IsAlnum, call.ret) = Only(IsAlnum, call.arg)
                /\ Len(Only(IsUnderscore, call.ret)) =
                      Len(Only(IsUnderscore, call.arg))
                      + Cardinality({i \in 1..Len(call.arg) : EndsRun(call.arg, i)}))

C8_Witness ==
    /\ Returned("sanitize_filename")
    /\ call.arg = "Coca-Cola, Inc."
    /\ call.ret = "Coca_Cola_Inc"

----------------------------------------------------------------------------
(* Properties of a run *)

\* the calls of one service among the calls made for the company at hand
CallsOf(api) == SelectSeq(calls, LAMBDA c : c.api = api)

\* process_company has been entered for companies[ci] and has not returned
InCompany == pc \in {"resolve", "listing", "scan", "download", "sleep_dl", "sleep_co"}

\* name resolution is over for the company at hand
Resolved == pc \in {"listing", "scan", "download", "sleep_dl", "sleep_co"}

\* find_company_logos has returned for the company at hand
Returned_logos == pc \in {"download", "sleep_dl", "sleep_co"}

\* the variants of a name, in the order the specification fixes
VariantsOf(name) ==
    <<name, name \o ", Inc.", name \o " Inc.", "The " \o name \o " Company">>

VariantTable == [n \in CompanyNames |-> VariantsOf(n)]

\* C3: the variants are checked in the order name, "<name>, Inc.",
\* "<name> Inc.", "The <name> Company"; the first variant found to exist is
\* selected and no later variant is checked; when no variant exists the
\* result is empty and no listing call is made.
C3_Resolution ==
    InCompany =>
        LET checks == CallsOf("exists")
            n == Len(checks)
            variants == VariantTable[companies[ci]]
        IN  /\ n <= 4
            /\ \A k \in 1..n : checks[k].arg = variants[k]
            /\ \A k \in 1..(n - 1) : checks[k].ret = "missing"
            /\ (page # None <=> n >= 1 /\ checks[n].ret = "exists")
            /\ (page # None => page.title = variants[n])
            /\ (pc = "resolve" => n < 4 /\ page = None)
            /\ (Resolved /\ page = None =>
                    /\ checks[n].ret = "raise" \/ n = 4
                    /\ logos = <<>> /\ pc = "sleep_co"
                    /\ CallsOf("images") = <<>>)
            /\ (Resolved /\ (\A k \in 1..n : checks[k].ret = "missing") =>
                    n = 4 /\ page = None)

C3_Witness ==
    /\ pc = "listing"
    /\ Len(CallsOf("exists")) = 3
    /\ page = [title |-> companies[ci] \o " Inc."]

\* the candidate get_logo_info yields for the i-th listed reference
CandidateAt(i) ==
    IF answers[i] = NoQuery THEN None
    ELSE get_logo_info(images_list[i].title, answers[i])

\* the candidates of the first k listed references that pass is_logo_file,
\* in listing order
RECURSIVE ExpectedLogos(_)
ExpectedLogos(k) ==
    IF k = 0 THEN <<>>
    ELSE LET candidate == CandidateAt(k)
         IN  IF LogoFileVerdict[images_list[k].title] /\ candidate # None
             THEN Append(ExpectedLogos(k - 1), candidate)
             ELSE ExpectedLogos(k - 1)

\* C4: the result of find_company_logos is the subsequence of the listed
\* references that pass is_logo_file and for which get_logo_info yields a
\* candidate, in listing order; a rejected or failed metadata query removes
\* only its own reference.
C4_OrderPreserved ==
    ri >= 1 =>
        /\ Len(answers) = ri - 1
        /\ logos = ExpectedLogos(ri - 1)
        /\ (Returned_logos => ri = Len(images_list) + 1)

C4_Witness ==
    /\ Returned_logos
    /\ Len(images_list) >= 2
    /\ Len(logos) = 1
    /\ CandidateAt(1) = None /\ answers[1] # NoQuery
    /\ logos[1] = CandidateAt(Len(images_list))

\* C5: no failure of a per-item operation aborts the run: process_company is
\* called for every company in order, the candidates after a failed download
\* are still attempted, and print_summary is reached.
C5_NeverAborts ==
    /\ Len(processed) <= Len(companies)
    /\ processed = SubSeq(companies, 1, Len(processed))
    /\ (InCompany => Len(processed) = ci)
    /\ (pc = "run" => Len(processed) = ci - 1)
    /\ (pc = "sleep_co" /\ logos # <<>> => Len(CallsOf("fetch")) = Len(logos))
    /\ (pc = "download" => Len(CallsOf("fetch")) = di - 1 /\ di <= Len(logos))
    /\ (pc = "done" => processed = companies)
    /\ (pc \notin {"done", "usage"} => ENABLED Next)

C5_Witness ==
    /\ pc = "sleep_co"
    /\ ci = 2
    /\ Len(CallsOf("fetch")) = 2
    /\ ~CallsOf("fetch")[1].ok
    /\ CallsOf("fetch")[2].ok

Numerals == <<"1", "2", "3", "4", "5", "6", "7", "8", "9">>

\* C6: the download of the candidate at position n of the accepted sequence
\* targets logo_<n>.png when its MIME type contains "png" and logo_<n>.svg
\* otherwise, in the company's subdirectory, whatever became of the earlier
\* downloads; no two candidates of a company share a file name.
C6_FileNames ==
    LET fetches == CallsOf("fetch")
    IN  /\ \A n \in 1..Len(fetches) :
            /\ n <= Len(logos)
            /\ fetches[n].arg = logos[n].url
            /\ fetches[n].filename =
                  "logo_" \o Numerals[n] \o
                      (IF Contains("png", logos[n].mime) THEN ".png" ELSE ".svg")
            /\ fetches[n].dir = CompanySafeName[companies[ci]]
        /\ \A m, n \in 1..Len(fetches) :
            m # n => fetches[m].filename # fetches[n].filename

C6_Witness ==
    LET fetches == CallsOf("fetch")
    IN  /\ Len(fetches) = 2
        /\ ~fetches[1].ok
        /\ fetches[1].filename = "logo_1.png"
        /\ fetches[2].filename = "logo_2.svg"

\* C7: a fixed pause follows every download attempt, successful or not,
\* before the next attempt; a longer fixed pause follows the processing of
\* every company, with or without article or candidates, before the next
\* company is begun.
C7_Pauses ==
    /\ DownloadPause < CompanyPause
    /\ \A j \in 1..Len(calls) :
          calls[j].api = "fetch" =>
              IF j = Len(calls) THEN pc = "sleep_dl"
              ELSE calls[j + 1] = [api |-> "sleep", arg |-> DownloadPause]
    /\ (pc = "download" /\ di > 1 =>
          calls[Len(calls)] = [api |-> "sleep", arg |-> DownloadPause])
    /\ (pc \in {"run", "done"} /\ ci > 1 =>
          calls = <<[api |-> "sleep", arg |-> CompanyPause]>>)
    /\ (InCompany => \A j \in 1..Len(calls) :
          calls[j] # [api |-> "sleep", arg |-> CompanyPause])

C7_Witness ==
    /\ pc = "download" /\ di = 2
    /\ ~calls[Len(calls) - 1].ok
    /\ ci = 2

\* the reading of the classifier's rule, for each title a listing can hold
PassesRule ==
    [t \in RunTitles |->
        HasAllowKeyword(t) /\ HasLogoExtension(t) /\ ~HasDenyKeyword(t)]

\* the titles of the first k listed references that pass the rule, in order
RECURSIVE PassingTitles(_)
PassingTitles(k) ==
    IF k = 0 THEN <<>>
    ELSE IF PassesRule[images_list[k].title]
         THEN Append(PassingTitles(k - 1), images_list[k].title)
         ELSE PassingTitles(k - 1)

\* C9: while a reference list is scanned, a metadata query is issued for
\* exactly the references that pass is_logo_file, also after an earlier one
\* was accepted; never for a deny-listed reference or one whose extension is
\* not png or svg, and no candidate comes from such a reference.
C9_QueriesIssued ==
    ri >= 1 =>
        /\ Len(answers) = ri - 1
        /\ \A i \in 1..(ri - 1) : (answers[i] # NoQuery) <=> PassesRule[images_list[i].title]
        /\ [k \in 1..Len(CallsOf("imageinfo")) |-> CallsOf("imageinfo")[k].arg]
              = PassingTitles(ri - 1)
        /\ \A k \in 1..Len(logos) :
              \E i \in 1..(ri - 1) :
                  /\ PassesRule[images_list[i].title]
                  /\ logos[k].filename = Remove(images_list[i].title, "File:")
        /\ (Returned_logos => ri = Len(images_list) + 1)

C9_Witness ==
    /\ Returned_logos
    /\ Len(images_list) >= 2
    /\ PassesRule[images_list[1].title]
    /\ CandidateAt(1) # None
    /\ answers[2] # NoQuery

\* C10: always 0 <= logos_downloaded <= logos_found, and companies_processed
\* is the number of companies whose processing has started; at print_summary
\* companies_processed is the number of arguments, logos_found the total
\* length of the sequences find_company_logos returned and logos_downloaded
\* the number of downloads that succeeded.
C10_Counters ==
    /\ 0 <= stats.logos_downloaded
    /\ stats.logos_downloaded <= stats.logos_found
    /\ stats.companies_processed = tally.started
    /\ stats.companies_processed = Len(processed)
    /\ stats.logos_downloaded = tally.succeeded
    /\ (pc \in {"run", "done"} => stats.logos_found = tally.returned)
    /\ (pc = "done" =>
          /\ stats.companies_processed = Len(companies)
          /\ stats.logos_found = tally.returned
          /\ stats.logos_downloaded = tally.succeeded)

C10_Witness ==
    /\ pc = "done"
    /\ stats.companies_processed = 2
    /\ stats.logos_found = 3
    /\ stats.logos_downloaded = 1

====
